---- MODULE Spec2Model ----
(***************************************************************************)
(* Model of agent/js/src/adb.js: the adb runner (command_, adb, shell,     *)
(* exists, getPidsOfProcess) and the CRLF normaliser dos2unix.             *)
(*                                                                         *)
(* Strings and Buffers are sequences of character / byte codes.  JavaScript *)
(* indices are 0-based; a sequence s holds JavaScript's s[i] at s[i + 1].   *)
(* An optional argument (undefined when omitted) is <<>> or <<value>>.      *)
(***************************************************************************)
EXTENDS Integers, Sequences, FiniteSets, TLC

VARIABLES
  \* ---- dos2unix (adb.js:159-208)
  input,                \* the argument of the first dos2unix call
  origBuf,              \* the argument of the running call
  retBuf,               \* the output Buffer
  origPos,              \* scan index
  origPosAfterNewline,  \* start of the span not yet copied
  retLen,               \* bytes written to retBuf
  ret,                  \* the value returned by the last finished call
  firstRet,             \* the value returned by the first call
  pass,                 \* 1: dos2unix(input), 2: dos2unix(dos2unix(input))
  npc,                  \* position inside dos2unix
  inBounds,             \* every Buffer write so far landed inside retBuf
  \* ---- one promise returned by exists / getPidsOfProcess (adb.js:104-144)
  method,               \* "exists" or "getPidsOfProcess"
  execResult,           \* how the promise returned by shell(...) settled
  settled,              \* how the promise returned by the method settled
  ppc,                  \* "pending" until the .then callback has run
  \* ---- the runner (adb.js:45-144) with its scheduler and executor
  this,                 \* the Adb object: app_, adbCommand, serial
  made,                 \* the Adb object as the constructor left it
  calls,                \* the calls made on it, in the order they were made
  queue,                \* tasks scheduled on app_ and not started
  running,              \* tasks whose process is running
  execLog,              \* the commands handed to the executor, in order
  resolved              \* the settled calls, in the order they settled

normVars == <<input, origBuf, retBuf, origPos, origPosAfterNewline, retLen,
              ret, firstRet, pass, npc, inBounds>>

parseVars == <<method, execResult, settled, ppc>>

runVars == <<this, made, calls, queue, running, execLog, resolved>>

vars == <<normVars, parseVars, runVars>>

-----------------------------------------------------------------------------
(* Bounds *)

MaxLen == 4        \* longest dos2unix argument
MaxLines == 3      \* most lines in a ps listing
MaxStatusLen == 2  \* longest output of the exists command
MaxCalls == 2      \* most calls made on one Adb object

-----------------------------------------------------------------------------
(* Byte and character codes *)

CR == 13
LF == 10
Bytes == {LF, CR, 97}

Min(a, b) == IF a < b THEN a ELSE b

RECURSIVE SeqsUpTo(_, _)
SeqsUpTo(S, n) ==
  IF n = 0 THEN {<<>>}
  ELSE LET shorter == SeqsUpTo(S, n - 1)
       IN shorter \cup {Append(s, x) : s \in {t \in shorter : Len(t) = n - 1}, x \in S}

-----------------------------------------------------------------------------
(* dos2unix *)

\* A JavaScript value passed to dos2unix: null, a string or a Buffer.
Null == [kind |-> "null", data |-> <<>>]
Str(s) == [kind |-> "string", data |-> s]
Buf(b) == [kind |-> "Buffer", data |-> b]

\* !origBuf: null and the empty string are falsy, every Buffer is truthy.
Falsy(v) == v.kind = "null" \/ (v.kind = "string" /\ v.data = <<>>)

\* s.replace(/\r\n/g, '\n'): the matches are found left to right, each
\* search resuming after the previous match.
RECURSIVE replaceCRLF(_)
replaceCRLF(s) ==
  IF s = <<>> THEN <<>>
  ELSE IF Len(s) >= 2 /\ s[1] = CR /\ s[2] = LF
       THEN <<LF>> \o replaceCRLF(SubSeq(s, 3, Len(s)))
       ELSE <<s[1]>> \o replaceCRLF(Tail(s))

\* source.copy(target, targetStart, sourceStart, sourceEnd): copies as many
\* bytes as fit in target; returns target's new contents.
copy(source, target, targetStart, sourceStart, sourceEnd) ==
  LET n == Min(sourceEnd - sourceStart, Len(target) - targetStart)
  IN [i \in 1..Len(target) |->
        IF i - 1 >= targetStart /\ i - 1 < targetStart + n
        THEN source[sourceStart + (i - 1 - targetStart) + 1]
        ELSE target[i]]

\* whether that copy stays within both buffers
copyFits(source, target, targetStart, sourceStart, sourceEnd) ==
  /\ 0 <= sourceStart /\ sourceStart <= sourceEnd /\ sourceEnd <= Len(source)
  /\ 0 <= targetStart
  /\ targetStart + (sourceEnd - sourceStart) <= Len(target)

\* buf[index] = value: a write outside a Buffer is dropped.
setByte(buf, index, value) ==
  [i \in 1..Len(buf) |-> IF i - 1 = index THEN value ELSE buf[i]]

\* buf.slice(0, end)
slice(buf, end) == SubSeq(buf, 1, end)

\* mutant: the test for the CR is left out
atCRLF_NoCRTest(buf, pos) == buf[pos + 1] = LF

\* 10 === origBuf[origPos] && 13 === origBuf[origPos - 1]
atCRLF(buf, pos) == buf[pos + 1] = LF /\ buf[pos] = CR

\* mutant: the span copied before a CR LF pair includes the CR
copyLenAt_KeepCR(pos, posAfterNewline) == pos - posAfterNewline

\* var copyLen = origPos - origPosAfterNewline - 1
copyLenAt(pos, posAfterNewline) == pos - posAfterNewline - 1

\* mutant: the tail is counted one byte short
tailLenAt_Short(len, posAfterNewline) == len - posAfterNewline - 1

\* var tailLen = origLen - origPosAfterNewline
tailLenAt(len, posAfterNewline) == len - posAfterNewline

NormInputs ==
  {Null} \cup {Str(s) : s \in SeqsUpTo(Bytes, MaxLen)}
         \cup {Buf(b) : b \in SeqsUpTo(Bytes, MaxLen)}

NormInit ==
  /\ input \in NormInputs
  /\ origBuf = input
  /\ retBuf = <<>>
  /\ origPos = 0
  /\ origPosAfterNewline = 0
  /\ retLen = 0
  /\ ret = Null
  /\ firstRet = Null
  /\ pass = 1
  /\ npc = "start"
  /\ inBounds = TRUE

\* adb.js:161-163: a falsy argument is returned as it is.
ReturnFalsy ==
  /\ npc = "start"
  /\ Falsy(origBuf)
  /\ ret' = origBuf
  /\ npc' = "done"
  /\ UNCHANGED <<input, origBuf, retBuf, origPos, origPosAfterNewline, retLen,
                 firstRet, pass, inBounds>>

\* adb.js:164-166: a string goes through String.replace.
ReplaceString ==
  /\ npc = "start"
  /\ ~Falsy(origBuf)
  /\ origBuf.kind = "string"
  /\ ret' = Str(replaceCRLF(origBuf.data))
  /\ npc' = "done"
  /\ UNCHANGED <<input, origBuf, retBuf, origPos, origPosAfterNewline, retLen,
                 firstRet, pass, inBounds>>

\* adb.js:174-180: the Buffer case sets up the scan.  new Buffer(origLen)
\* is not zero-filled: its contents are whatever the allocator hands out.
BeginScan ==
  /\ npc = "start"
  /\ origBuf.kind = "Buffer"
  /\ origPosAfterNewline' = 0
  /\ retLen' = 0
  /\ \E garbage \in [1..Len(origBuf.data) -> Bytes] : retBuf' = garbage
  /\ origPos' = 1
  /\ npc' = "scan"
  /\ UNCHANGED <<input, origBuf, ret, firstRet, pass, inBounds>>

\* adb.js:180-196: one iteration of the for loop.
ScanStep ==
  /\ npc = "scan"
  /\ origPos < Len(origBuf.data)
  /\ IF atCRLF(origBuf.data, origPos)
     THEN LET copyLen == copyLenAt(origPos, origPosAfterNewline)
              copied == IF copyLen > 0
                        THEN copy(origBuf.data, retBuf, retLen,
                                  origPosAfterNewline, origPos - 1)
                        ELSE retBuf
              lenAfterCopy == IF copyLen > 0 THEN retLen + copyLen ELSE retLen
          IN /\ retBuf' = setByte(copied, lenAfterCopy, LF)
             /\ retLen' = lenAfterCopy + 1
             /\ origPosAfterNewline' = origPos + 1
             /\ inBounds' = (/\ inBounds
                             /\ copyLen > 0 =>
                                  copyFits(origBuf.data, retBuf, retLen,
                                           origPosAfterNewline, origPos - 1)
                             /\ lenAfterCopy >= 0
                             /\ lenAfterCopy < Len(retBuf))
     ELSE UNCHANGED <<retBuf, retLen, origPosAfterNewline, inBounds>>
  /\ origPos' = origPos + 1
  /\ UNCHANGED <<input, origBuf, ret, firstRet, pass, npc>>

\* adb.js:197-207: the loop is over; copy the tail, trim, return.
FinishScan ==
  /\ npc = "scan"
  /\ ~(origPos < Len(origBuf.data))
  /\ LET origLen == Len(origBuf.data)
         tailLen == tailLenAt(origLen, origPosAfterNewline)
         copied == IF tailLen > 0
                   THEN copy(origBuf.data, retBuf, retLen,
                             origPosAfterNewline, origLen)
                   ELSE retBuf
         lenAfterCopy == IF tailLen > 0 THEN retLen + tailLen ELSE retLen
         trimmed == IF lenAfterCopy < Len(copied)
                    THEN slice(copied, lenAfterCopy)
                    ELSE copied
     IN /\ retBuf' = trimmed
        /\ retLen' = lenAfterCopy
        /\ ret' = Buf(trimmed)
        /\ inBounds' = (/\ inBounds
                        /\ tailLen > 0 =>
                             copyFits(origBuf.data, retBuf, retLen,
                                      origPosAfterNewline, origLen))
  /\ npc' = "done"
  /\ UNCHANGED <<input, origBuf, origPos, origPosAfterNewline, firstRet, pass>>

\* The caller applies dos2unix to the value the first call returned.
Reapply ==
  /\ npc = "done"
  /\ pass = 1
  /\ firstRet' = ret
  /\ origBuf' = ret
  /\ pass' = 2
  /\ npc' = "start"
  /\ UNCHANGED <<input, retBuf, origPos, origPosAfterNewline, retLen, ret,
                 inBounds>>

NormNext ==
  \/ ReturnFalsy
  \/ ReplaceString
  \/ BeginScan
  \/ ScanStep
  \/ FinishScan
  \/ Reapply


-----------------------------------------------------------------------------
(* Promises *)

\* An Error: its message, and what util.format put into it.
Error(message, cause, line, output) ==
  [error |-> message, cause |-> cause, line |-> line, output |-> output]
NoError == Error("", "", -1, <<>>)

Fulfilled(v) == [state |-> "fulfilled", value |-> v, reason |-> NoError]
Rejected(e) == [state |-> "rejected", value |-> <<>>, reason |-> e]
Pending == [state |-> "pending", value |-> <<>>, reason |-> NoError]

-----------------------------------------------------------------------------
(* exists and getPidsOfProcess: the callbacks given to .then *)

NUM_FIELDS == 9

Whitespace == {" ", "\t", "\r", "\n"}
cUSER == <<"U", "S", "E", "R">>

\* s.indexOf(prefix) === 0
startsWith(s, prefix) ==
  Len(s) >= Len(prefix) /\ SubSeq(s, 1, Len(prefix)) = prefix

\* stdout.split(/\r?\n/): i is the scan position, cur the piece being read.
RECURSIVE splitLinesFrom(_, _, _, _)
splitLinesFrom(s, i, cur, acc) ==
  IF i > Len(s) THEN Append(acc, cur)
  ELSE IF s[i] = "\r" /\ i < Len(s) /\ s[i + 1] = "\n"
       THEN splitLinesFrom(s, i + 2, <<>>, Append(acc, cur))
  ELSE IF s[i] = "\n"
       THEN splitLinesFrom(s, i + 1, <<>>, Append(acc, cur))
  ELSE splitLinesFrom(s, i + 1, Append(cur, s[i]), acc)

splitLines(s) == splitLinesFrom(s, 1, <<>>, <<>>)

\* the first position at or after i that holds no whitespace
RECURSIVE skipWhitespace(_, _)
skipWhitespace(s, i) ==
  IF i <= Len(s) /\ s[i] \in Whitespace THEN skipWhitespace(s, i + 1) ELSE i

\* line.split(/\s+/): a separator is a maximal run of whitespace; a run at
\* the start or the end of the line leaves an empty field there.
RECURSIVE splitFieldsFrom(_, _, _, _)
splitFieldsFrom(s, i, cur, acc) ==
  IF i > Len(s) THEN Append(acc, cur)
  ELSE IF s[i] \in Whitespace
       THEN splitFieldsFrom(s, skipWhitespace(s, i), <<>>, Append(acc, cur))
  ELSE splitFieldsFrom(s, i + 1, Append(cur, s[i]), acc)

splitFields(s) == splitFieldsFrom(s, 1, <<>>, <<>>)

\* mutant: JavaScript's loose comparison stdout == 0
existsCallback_Loose(stdout) == \A i \in 1..Len(stdout) : stdout[i] \in {"0", " ", "\n"}

\* adb.js:107-109: return stdout === '0'
existsCallback(stdout) == stdout = <<"0">>

\* adb.js:125: lines.length === 0 || lines[0].indexOf('USER ') !== 0
psFailed(lines) == Len(lines) = 0 \/ ~startsWith(lines[1], cUSER \o <<" ">>)

\* adb.js:133: iLine === 0 && fields[0] === 'USER'
isHeader(iLine, fields) == iLine = 0 /\ fields[1] = cUSER

\* mutant: only lines too short to hold a pid are refused
badFieldCount_Lenient(fields) == Len(fields) < 2

\* adb.js:136: fields.length !== 9
badFieldCount(fields) == Len(fields) # NUM_FIELDS

\* mutant: the user column is taken for the pid
pidField_User(fields) == fields[1]

\* adb.js:140: fields[1]
pidField(fields) == fields[2]

\* adb.js:128-142: lines.forEach(...); return pids.  A throw inside the
\* callback leaves forEach and the .then callback at once.
RECURSIVE forEachLine(_, _, _, _)
forEachLine(lines, iLine, pids, stdout) ==
  IF iLine >= Len(lines) THEN Fulfilled(pids)
  ELSE LET line == lines[iLine + 1]
           fields == splitFields(line)
       IN IF Len(line) = 0
          THEN forEachLine(lines, iLine + 1, pids, stdout)
          ELSE IF isHeader(iLine, fields)
          THEN forEachLine(lines, iLine + 1, pids, stdout)
          ELSE IF badFieldCount(fields)
          THEN Rejected(Error("Failed to parse ps output line", "", iLine,
                              stdout))
          ELSE forEachLine(lines, iLine + 1, Append(pids, pidField(fields)),
                           stdout)

\* adb.js:122-143: the callback of getPidsOfProcess
getPidsCallback(stdout) ==
  LET lines == splitLines(stdout)
  IN IF psFailed(lines)
     THEN Rejected(Error("ps command failed", "", -1, stdout))
     ELSE forEachLine(lines, 0, <<>>, stdout)

\* mutant: an errback turns a failed command into "does not exist"
existsThen_Errback(p) ==
  IF p.state = "rejected" THEN Fulfilled(FALSE)
  ELSE Fulfilled(existsCallback(p.value))

\* adb.js:106-109: shell(...).then(callback), no errback: a rejection of
\* the command's promise is the rejection of the returned promise.
existsThen(p) ==
  IF p.state = "rejected" THEN p ELSE Fulfilled(existsCallback(p.value))

\* adb.js:122-143: shell(['ps', name]).then(callback), no errback
getPidsThen(p) ==
  IF p.state = "rejected" THEN p ELSE getPidsCallback(p.value)

\* What the executor reports for a failed command.
ExecutionErrors ==
  {Error("ExecutionError", c, -1, <<>>) : c \in {"exit", "timeout"}}

\* ps listings: lines joined by one line terminator.
Word(c) == <<c>>
RECURSIVE joinWords(_)
joinWords(ws) ==
  IF Len(ws) = 0 THEN <<>>
  ELSE IF Len(ws) = 1 THEN ws[1]
  ELSE ws[1] \o <<" ">> \o joinWords(Tail(ws))

x7 == [i \in 1..7 |-> <<"x">>]

PsLines ==
  { cUSER \o <<" ">> \o <<"P", "I", "D">>,         \* "USER PID"
    cUSER,                                          \* "USER"
    <<"b", "a", "d">>,                              \* "bad"
    joinWords(<<Word("u"), <<"1", "2">>>> \o x7),   \* 9 fields, pid 12
    <<"u", " ", " ", "7", "\t">> \o joinWords(x7),  \* runs of whitespace
    <<" ", "5", " ">> \o joinWords(x7) \o <<" ", "x">>,  \* leading blank
    joinWords(<<Word("u"), Word("9"), Word("x")>>) \o <<" ", "x", " ", "x">>,
                                                    \* 5 fields
    joinWords(<<cUSER, Word("8")>> \o x7),          \* 9 fields, user USER
    <<>>,                                           \* empty
    <<" ">> }                                       \* blank, not empty

RECURSIVE joinLines(_, _)
joinLines(ls, eol) ==
  IF Len(ls) = 0 THEN <<>>
  ELSE IF Len(ls) = 1 THEN ls[1]
  ELSE ls[1] \o eol \o joinLines(Tail(ls), eol)

PsOutputs ==
  {joinLines(ls, eol) \o end :
     ls \in SeqsUpTo(PsLines, MaxLines),
     eol \in {<<"\n">>, <<"\r", "\n">>},
     end \in {<<>>, <<"\n">>}}

StatusOutputs == SeqsUpTo({"0", "1", " ", "\n"}, MaxStatusLen)

ParseInit ==
  /\ method \in {"exists", "getPidsOfProcess"}
  /\ \/ \E e \in ExecutionErrors : execResult = Rejected(e)
     \/ \E out \in IF method = "exists" THEN StatusOutputs ELSE PsOutputs :
          execResult = Fulfilled(out)
  /\ settled = Pending
  /\ ppc = "pending"

\* adb.js:104-110: the promise returned by exists settles.
ExistsSettles ==
  /\ ppc = "pending"
  /\ method = "exists"
  /\ settled' = existsThen(execResult)
  /\ ppc' = "settled"
  /\ UNCHANGED <<method, execResult>>

\* adb.js:120-144: the promise returned by getPidsOfProcess settles.
GetPidsSettles ==
  /\ ppc = "pending"
  /\ method = "getPidsOfProcess"
  /\ settled' = getPidsThen(execResult)
  /\ ppc' = "settled"
  /\ UNCHANGED <<method, execResult>>

ParseNext ==
  \/ ExistsSettles
  \/ GetPidsSettles

-----------------------------------------------------------------------------
(* The runner: Adb, command_, adb, shell *)

DEFAULT_TIMEOUT == 60000

Undefined == <<>>

\* adb.js:45-50: new Adb(app, serial, adbCommand), with process.env.ANDROID_ADB
Adb(app, serial, adbCommand, envAndroidAdb) ==
  [app_ |-> app,
   adbCommand |-> IF adbCommand # Undefined /\ adbCommand[1] # ""
                  THEN adbCommand[1]
                  ELSE IF envAndroidAdb # Undefined /\ envAndroidAdb[1] # ""
                       THEN envAndroidAdb[1]
                       ELSE "adb",
   serial |-> serial]

\* Array.prototype.concat: a new array, neither operand is changed.
concat(array, items) == array \o items

\* adb.js:67: timeout || exports.DEFAULT_TIMEOUT
timeoutOrDefault(timeout) ==
  IF timeout # Undefined /\ timeout[1] # 0 THEN timeout[1] ELSE DEFAULT_TIMEOUT

\* adb.js:64-68: the arguments command_ gives to process_utils.scheduleExec
command_(self, args, options, timeout) ==
  [app |-> self.app_, command |-> self.adbCommand, args |-> args,
   options |-> options, timeout |-> timeoutOrDefault(timeout)]

\* adb.js:79-82
adb(self, args, options, timeout) ==
  command_(self, concat(<<"-s", self.serial>>, args), options, timeout)

\* mutant: the shell subcommand is left out
shell_NoSubcommand(self, args, options, timeout) ==
  adb(self, args, options, timeout)

\* adb.js:93-96
shell(self, args, options, timeout) ==
  adb(self, concat(<<"shell">>, args), options, timeout)

\* adb.js:106: the command of exists
existsCommand(self, path) ==
  shell(self, <<"ls", path, ">", "/dev/null", "2>&1", ";", "echo", "$?">>,
        Undefined, Undefined)

\* adb.js:122: the command of getPidsOfProcess
getPidsCommand(self, name) ==
  shell(self, <<"ps", name>>, Undefined, Undefined)

\* the command a call schedules
commandOf(self, call) ==
  CASE call.method = "adb" ->
         adb(self, call.args, call.options, call.timeout)
    [] call.method = "shell" ->
         shell(self, call.args, call.options, call.timeout)
    [] call.method = "exists" -> existsCommand(self, call.args[1])
    [] call.method = "getPidsOfProcess" -> getPidsCommand(self, call.args[1])

\* the promise a call returns, given how its command's promise settled
promiseOf(call, p) ==
  CASE call.method = "exists" -> existsThen(p)
    [] call.method = "getPidsOfProcess" -> getPidsThen(p)
    [] OTHER -> p

-----------------------------------------------------------------------------
(* The scheduler and the executor behind process_utils.scheduleExec *)

\* mutant: a task starts while another one is running
schedulerIdle_Eager(tasks) == TRUE

\* The scheduler starts a task only when none is running.
schedulerIdle(tasks) == tasks = {}

\* process_utils.scheduleExec(app, command, args, options, timeout)
scheduleExec(tasks, id, request) == Append(tasks, [id |-> id, request |-> request])

\* constructor arguments <<serial, adbCommand, process.env.ANDROID_ADB>>
Constructions ==
  { <<"emulator-5554", Undefined, Undefined>>,
    <<"HT9CX", <<"/sdk/adb">>, <<"adb-env">>>> }
ArgLists == {<<>>, <<"ls", "-l">>}
\* <<options, timeout>> as the caller gives them
OptionsAndTimeouts ==
  { <<Undefined, Undefined>>,
    <<<<"cwd">>, <<0>>>>,
    <<Undefined, <<5000>>>> }
Paths == {"/sdcard"}
Names == {"tcpdump"}

cPsListing ==
  cUSER \o <<" ">> \o <<"P", "I", "D">> \o <<"\r", "\n">>
    \o joinWords(<<Word("u"), <<"1", "2">>>> \o x7) \o <<"\r", "\n">>
RunnerOutputs == {<<"0">>, cPsListing}

RunInit ==
  /\ \E c \in Constructions : this = Adb("app", c[1], c[2], c[3])
  /\ made = this
  /\ calls = <<>>
  /\ queue = <<>>
  /\ running = {}
  /\ execLog = <<>>
  /\ resolved = <<>>

\* A call is made: its command is built and scheduled on app_.
Call(name, args, options, timeout) ==
  /\ Len(calls) < MaxCalls
  /\ LET call == [method |-> name, args |-> args, options |-> options,
                  timeout |-> timeout, argsNow |-> args]
     IN /\ calls' = Append(calls, call)
        /\ queue' = scheduleExec(queue, Len(calls) + 1, commandOf(this, call))
  /\ UNCHANGED <<this, made, running, execLog, resolved>>

\* adb.js:79-82
CallAdb ==
  \E args \in ArgLists, ot \in OptionsAndTimeouts :
    Call("adb", args, ot[1], ot[2])

\* adb.js:93-96
CallShell ==
  \E args \in ArgLists, ot \in OptionsAndTimeouts :
    Call("shell", args, ot[1], ot[2])

\* adb.js:104-110
CallExists ==
  \E path \in Paths : Call("exists", <<path>>, Undefined, Undefined)

\* adb.js:120-144
CallGetPidsOfProcess ==
  \E process \in Names :
    Call("getPidsOfProcess", <<process>>, Undefined, Undefined)

\* The scheduler starts the oldest task: the executor spawns its command.
SchedulerRuns ==
  /\ queue # <<>>
  /\ schedulerIdle(running)
  /\ running' = running \cup {Head(queue)}
  /\ execLog' = Append(execLog, Head(queue))
  /\ queue' = Tail(queue)
  /\ UNCHANGED <<this, made, calls, resolved>>

\* The command's promise settles as p; the call's .then callback runs and
\* the promise the call returned settles.
Settle(task, p) ==
  /\ running' = running \ {task}
  /\ resolved' = Append(resolved,
                        [id |-> task.id, exec |-> p,
                         promise |-> promiseOf(calls[task.id], p),
                         waiting |-> Len(queue)])
  /\ UNCHANGED <<this, made, calls, queue, execLog>>

\* The process exits: stdout for status 0, an error otherwise.
ExecExits ==
  \E task \in running, code \in {0, 1}, stdout \in RunnerOutputs :
    Settle(task, IF code = 0 THEN Fulfilled(stdout)
                 ELSE Rejected(Error("ExecutionError", "exit", -1, <<>>)))

\* The timeout passes: the process is killed and the command fails.
ExecTimesOut ==
  \E task \in running :
    Settle(task, Rejected(Error("ExecutionError", "timeout", -1, <<>>)))

RunNext ==
  \/ CallAdb
  \/ CallShell
  \/ CallExists
  \/ CallGetPidsOfProcess
  \/ SchedulerRuns
  \/ ExecExits
  \/ ExecTimesOut

-----------------------------------------------------------------------------
(* Specifications *)

NormIdle ==
  /\ input = Null /\ origBuf = Null /\ retBuf = <<>> /\ origPos = 0
  /\ origPosAfterNewline = 0 /\ retLen = 0 /\ ret = Null /\ firstRet = Null
  /\ pass = 1 /\ npc = "idle" /\ inBounds = TRUE

ParseIdle ==
  /\ method = "none" /\ execResult = Pending
  /\ settled = Pending /\ ppc = "idle"

RunIdle ==
  /\ this = Adb("app", "emulator-5554", Undefined, Undefined) /\ made = this
  /\ calls = <<>> /\ queue = <<>> /\ running = {} /\ execLog = <<>>
  /\ resolved = <<>>

Init == RunInit /\ NormIdle /\ ParseIdle

Next == RunNext /\ UNCHANGED <<normVars, parseVars>>

Spec == Init /\ [][Next]_vars

InitNorm == NormInit /\ ParseIdle /\ RunIdle

NextNorm == NormNext /\ UNCHANGED <<parseVars, runVars>>

SpecNorm == InitNorm /\ [][NextNorm]_vars

InitParse == ParseInit /\ NormIdle /\ RunIdle

NextParse == ParseNext /\ UNCHANGED <<normVars, runVars>>

SpecParse == InitParse /\ [][NextParse]_vars

-----------------------------------------------------------------------------
(* Properties of dos2unix *)

HasCRLF(b) == \E i \in 1..(Len(b) - 1) : b[i] = CR /\ b[i + 1] = LF
HasCRCRLF(b) ==
  \E i \in 1..(Len(b) - 2) : b[i] = CR /\ b[i + 1] = CR /\ b[i + 2] = LF
CountCRLF(b) == Cardinality({i \in 1..(Len(b) - 1) : b[i] = CR /\ b[i + 1] = LF})

\* The bytes of b that are not a CR immediately followed by an LF, in order.
RECURSIVE KeptPrefix(_, _)
KeptPrefix(b, n) ==
  IF n = 0 THEN <<>>
  ELSE IF b[n] = CR /\ n < Len(b) /\ b[n + 1] = LF
       THEN KeptPrefix(b, n - 1)
       ELSE Append(KeptPrefix(b, n - 1), b[n])
Reference(b) == KeptPrefix(b, Len(b))

\* C1 as stated: dos2unix(dos2unix(x)) = dos2unix(x) for every x.
C1_Idempotent ==
  (pass = 2 /\ npc = "done") => ret = firstRet

\* C1 amended: dos2unix(dos2unix(x)) = dos2unix(x) for every x in which no
\* CR directly precedes a CR LF pair (no CR CR LF run).
C1_IdempotentWithoutCRCRLF ==
  (pass = 2 /\ npc = "done" /\ ~HasCRCRLF(input.data)) => ret = firstRet

C1_Witness ==
  /\ pass = 2 /\ npc = "done"
  /\ input.kind = "Buffer" /\ HasCRLF(input.data) /\ ~HasCRCRLF(input.data)
  /\ firstRet # input
  /\ ret = firstRet

\* C2: for a Buffer b, dos2unix(b) is b without each CR that is immediately
\* followed by an LF, every other byte kept in order; b itself when b has
\* no CR LF pair.
C2_MatchesReference ==
  (npc = "done" /\ origBuf.kind = "Buffer") =>
    /\ ret = Buf(Reference(origBuf.data))
    /\ ~HasCRLF(origBuf.data) => ret = origBuf

\* a lone CR is kept and a CR LF pair at the very end is replaced
C2_Witness ==
  /\ npc = "done" /\ pass = 1
  /\ input = Buf(<<CR, 97, CR, LF>>)
  /\ ret = Buf(<<CR, 97, LF>>)

\* C10: during the scan retLen <= origPosAfterNewline <= origLen, every
\* write lands inside retBuf (allocated at origLen), and the returned
\* Buffer holds exactly the retLen bytes written: origLen minus the number
\* of CR LF pairs.
C10_Cursors ==
  /\ (npc = "scan") =>
       /\ 0 <= retLen /\ retLen <= origPosAfterNewline
       /\ origPosAfterNewline <= Len(origBuf.data)
       /\ Len(retBuf) = Len(origBuf.data)
  /\ inBounds
  /\ (npc = "done" /\ origBuf.kind = "Buffer") =>
       /\ Len(ret.data) = retLen
       /\ retLen = Len(origBuf.data) - CountCRLF(origBuf.data)

C10_Witness ==
  /\ npc = "done" /\ origBuf.kind = "Buffer"
  /\ CountCRLF(origBuf.data) = 2
  /\ retLen = Len(origBuf.data) - 2

-----------------------------------------------------------------------------
(* Properties of exists and getPidsOfProcess *)

\* C3: exists resolves to true exactly when the output of the command, the
\* echoed exit status, is the one-character string "0"; for "1", "00",
\* "0 " and "" it resolves to false.
C3_ExistsIffZero ==
  (ppc = "settled" /\ method = "exists" /\ execResult.state = "fulfilled") =>
    LET stdout == execResult.value
    IN /\ settled.state = "fulfilled"
       /\ settled.value \in BOOLEAN
       /\ settled.value <=> (Len(stdout) = 1 /\ stdout[1] = "0")
       /\ (\/ stdout = <<"1">>
           \/ stdout = <<"0", "0">>
           \/ stdout = <<"0", " ">>
           \/ stdout = <<>>) => ~settled.value

C3_Witness ==
  /\ ppc = "settled" /\ method = "exists"
  /\ execResult.state = "fulfilled" /\ execResult.value = <<"0">>
  /\ settled.state = "fulfilled" /\ settled.value = TRUE

\* The listing's lines, and the (1-based) position of its header line: the
\* first line whose first field is USER.
ListingLines == splitLines(execResult.value)
FirstField(line) == splitFields(line)[1]
IsHeaderAt(lines, i) ==
  /\ FirstField(lines[i]) = cUSER
  /\ \A j \in 1..(i - 1) : FirstField(lines[j]) # cUSER
IsDataAt(lines, i) == lines[i] # <<>> /\ ~IsHeaderAt(lines, i)

\* field 1 of every data line among the first n lines, in line order
RECURSIVE PidsOfFirst(_, _)
PidsOfFirst(lines, n) ==
  IF n = 0 THEN <<>>
  ELSE IF IsDataAt(lines, n)
       THEN Append(PidsOfFirst(lines, n - 1), splitFields(lines[n])[2])
       ELSE PidsOfFirst(lines, n - 1)

PsSettled ==
  ppc = "settled" /\ method = "getPidsOfProcess" /\ execResult.state = "fulfilled"

\* C4: when getPidsOfProcess succeeds, its result is field 1 of every
\* non-empty line other than the header line, in line order, one entry per
\* such line.
C4_PidsInLineOrder ==
  (PsSettled /\ settled.state = "fulfilled") =>
    settled.value = PidsOfFirst(ListingLines, Len(ListingLines))

\* header, a data line, a data line whose user is USER, an empty last line
C4_Witness ==
  /\ PsSettled /\ settled.state = "fulfilled"
  /\ Len(ListingLines) = 4
  /\ ListingLines[4] = <<>>
  /\ settled.value = <<<<"1", "2">>, <<"8">>>>

\* the 0-based indices of the lines the field count refuses
Offending(lines) ==
  {i \in 0..(Len(lines) - 1) :
     IsDataAt(lines, i + 1) /\ Len(splitFields(lines[i + 1])) # NUM_FIELDS}

\* C5: getPidsOfProcess fails, with no pids at all, when the first line
\* does not begin with "USER " or when a non-empty line other than the
\* header has a field count other than 9; in the second case the error
\* names the index of the (first) offending line.
C5_ParseErrors ==
  PsSettled =>
    LET lines == ListingLines
        headerOk == startsWith(lines[1], cUSER \o <<" ">>)
    IN /\ ~headerOk =>
            /\ settled.state = "rejected"
            /\ settled.reason.error = "ps command failed"
       /\ (headerOk /\ Offending(lines) # {}) =>
            /\ settled.state = "rejected"
            /\ settled.reason.error = "Failed to parse ps output line"
            /\ settled.reason.line \in Offending(lines)
            /\ \A i \in Offending(lines) : settled.reason.line <= i
       /\ settled.state = "rejected" => settled.value = <<>>

\* a good data line comes before the offending one
C5_Witness ==
  /\ PsSettled /\ settled.state = "rejected"
  /\ settled.reason.line = 2
  /\ Len(splitFields(ListingLines[2])) = NUM_FIELDS
  /\ Len(splitFields(ListingLines[3])) = 5

-----------------------------------------------------------------------------
(* Properties of the runner *)

\* every task handed to the scheduler so far
Scheduled == {queue[i] : i \in 1..Len(queue)} \cup {execLog[i] : i \in 1..Len(execLog)}
ExecutionsOf(id) == {i \in 1..Len(execLog) : execLog[i].id = id}
ResolutionsOf(id) == {i \in 1..Len(resolved) : resolved[i].id = id}

\* C6: shell(args) hands the executor one request: the object's adbCommand
\* with the arguments "-s", serial, "shell" followed by args; adb(args) the
\* same without "shell".  The caller's args and the object's serial and
\* adbCommand are as they were before the call.
C6_ArgumentVector ==
  /\ \A t \in Scheduled :
       LET call == calls[t.id]
       IN /\ t.request.command = made.adbCommand
          /\ call.method = "shell" =>
               t.request.args = <<"-s", made.serial, "shell">> \o call.args
          /\ call.method = "adb" =>
               t.request.args = <<"-s", made.serial>> \o call.args
          /\ t.request.options = call.options
  /\ \A id \in 1..Len(calls) :
       /\ Cardinality({t \in Scheduled : t.id = id}) = 1
       /\ Cardinality(ExecutionsOf(id)) <= 1
       /\ ResolutionsOf(id) # {} => Cardinality(ExecutionsOf(id)) = 1
       /\ calls[id].argsNow = calls[id].args
  /\ this = made

C6_Witness ==
  \E i \in 1..Len(resolved), j \in 1..Len(resolved) :
    /\ calls[resolved[i].id].method = "shell"
    /\ calls[resolved[i].id].args = <<"ls", "-l">>
    /\ calls[resolved[j].id].method = "adb"
    /\ execLog[resolved[j].id].request.args = <<"-s", "HT9CX", "ls", "-l">>

\* C7: calls on one scheduler settle in the order they were made, and at
\* most one of their commands is running at any time.
C7_SubmissionOrder ==
  /\ \A i \in 1..Len(resolved) : resolved[i].id = i
  /\ \A i \in 1..Len(execLog) : execLog[i].id = i
  /\ Cardinality(running) <= 1

\* two shell calls, the second made while the first had not settled
C7_Witness ==
  /\ Len(resolved) = 2
  /\ resolved[1].waiting > 0
  /\ calls[1].method = "shell" /\ calls[2].method = "shell"

\* C8: when the executor reports a non-zero exit or a timeout, the call
\* fails with that error: exists does not resolve to false,
\* getPidsOfProcess does not resolve to an empty list, and the command is
\* not run a second time.
C8_FailuresPropagate ==
  \A i \in 1..Len(resolved) :
    resolved[i].exec.state = "rejected" =>
      /\ resolved[i].promise.state = "rejected"
      /\ resolved[i].promise.reason = resolved[i].exec.reason
      /\ Cardinality(ExecutionsOf(resolved[i].id)) = 1
      /\ \A t \in running : t.id # resolved[i].id
      /\ \A k \in 1..Len(queue) : queue[k].id # resolved[i].id

\* exists fails on a timeout, getPidsOfProcess on a non-zero exit
C8_Witness ==
  \E i \in 1..Len(resolved), j \in 1..Len(resolved) :
    /\ calls[resolved[i].id].method = "exists"
    /\ resolved[i].promise.state = "rejected"
    /\ resolved[i].promise.reason.cause = "timeout"
    /\ calls[resolved[j].id].method = "getPidsOfProcess"
    /\ resolved[j].promise.state = "rejected"
    /\ resolved[j].promise.reason.cause = "exit"

\* C9 as stated: every command reaches the executor with the timeout the
\* caller gave, 0 included, and with 60000 exactly when the caller gave none.
C9_TimeoutForwarded ==
  \A t \in Scheduled :
    LET given == calls[t.id].timeout
    IN /\ given # Undefined => t.request.timeout = given[1]
       /\ (given = Undefined) <=> (t.request.timeout = DEFAULT_TIMEOUT)

====
